---------------------------- MODULE Spec2Model ----------------------------
(***************************************************************************)
(* A model of scanner.py: the constrained candidate generator              *)
(* (build_candidate and the functions it calls) and the checking pipeline  *)
(* (run_checks).                                                           *)
(*                                                                         *)
(* A Python str is a sequence of one-character strings, so that slicing,   *)
(* splitting and regular-expression matching are computed character by     *)
(* character.  A function that draws from the shared random source is an   *)
(* operator returning the SET of values it can return; an action then      *)
(* picks one of them.                                                      *)
(***************************************************************************)
EXTENDS Integers, Sequences, FiniteSets, TLC

(***************************************************************************)
(* Bounds of the model.                                                    *)
(***************************************************************************)
\* largest length_max of a run configuration (the smallest legal one is 5)
MaxLen ==
    5

\* largest digits_max of a run configuration
MaxDig ==
    1

\* random.choice draws one of the first MaxChoice entries of a table
MaxChoice ==
    1

\* random.randint(0, 9) draws a digit in 0 .. MaxDigitValue
MaxDigitValue ==
    0

\* largest number of checks asked of a run (--checks)
MaxChecks ==
    2

\* oracle calls of a run that fail (rate limit, RPC error, other error)
MaxErrors ==
    1

\* how often the process is killed and started again
MaxRestarts ==
    1

(***************************************************************************)
(* Characters.                                                             *)
(***************************************************************************)
LowerLetters ==
    << "a","b","c","d","e","f","g","h","i","j","k","l","m",
       "n","o","p","q","r","s","t","u","v","w","x","y","z" >>

UpperLetters ==
    << "A","B","C","D","E","F","G","H","I","J","K","L","M",
       "N","O","P","Q","R","S","T","U","V","W","X","Y","Z" >>

DigitChars ==
    << "0","1","2","3","4","5","6","7","8","9" >>

Whitespace ==
    { " ", "\t", "\n", "\r" }

Range(seq) ==
    { seq[i] : i \in 1..Len(seq) }

Min(a, b) ==
    IF a <= b THEN a ELSE b

Max(a, b) ==
    IF a >= b THEN a ELSE b

\* the characters of each class, as sets
LowerSet ==
    Range(LowerLetters)

UpperSet ==
    Range(UpperLetters)

DigitSet ==
    Range(DigitChars)

IsLower(c) ==
    c \in LowerSet

IsUpper(c) ==
    c \in UpperSet

IsDigit(c) ==
    c \in DigitSet

\* str.isalpha() of one ASCII character
IsAlpha(c) ==
    IsLower(c) \/ IsUpper(c)

\* str.lower() of each capital letter
LowerOf ==
    [ c \in UpperSet |->
          LowerLetters[CHOOSE k \in 1..26 : UpperLetters[k] = c] ]

\* str.lower() of one character
LowerChar(c) ==
    IF IsUpper(c) THEN LowerOf[c] ELSE c

\* str.lower()
Lower(s) ==
    [ i \in 1..Len(s) |-> LowerChar(s[i]) ]

\* str.strip(): leading and trailing whitespace removed
RECURSIVE LStrip(_)
LStrip(s) ==
    IF s # << >> /\ Head(s) \in Whitespace THEN LStrip(Tail(s)) ELSE s

RECURSIVE RStrip(_)
RStrip(s) ==
    IF s # << >> /\ s[Len(s)] \in Whitespace
    THEN RStrip(SubSeq(s, 1, Len(s) - 1))
    ELSE s

Strip(s) ==
    RStrip(LStrip(s))

\* needle in hay, for Python strings
Contains(hay, needle) ==
    \E i \in 0..(Len(hay) - Len(needle)) :
        SubSeq(hay, i + 1, i + Len(needle)) = needle

\* the value None of an Optional[str]: no string, since a string's elements
\* are single characters
None ==
    << "None" >>

(***************************************************************************)
(* The tables of the generator.                                            *)
(***************************************************************************)
VOWELS ==
    << "a","e","i","o","u" >>

CONSONANTS ==
    << "b","c","d","f","g","h","j","k","l","m","n",
       "p","q","r","s","t","v","w","x","y","z" >>

ONSET_CLUSTERS ==
    << <<"b","l">>, <<"b","r">>, <<"c","h">>, <<"c","l">>, <<"c","r">>,
       <<"d","r">>, <<"f","l">>, <<"f","r">>, <<"g","l">>, <<"g","r">>,
       <<"p","l">>, <<"p","r">>, <<"s","l">>, <<"s","m">>, <<"s","n">>,
       <<"s","p">>, <<"s","t">>, <<"s","t","r">>, <<"t","r">>,
       <<"t","w">>, <<"s","h">>, <<"t","h">>, <<"p","h">>, <<"q","u">>,
       <<"s","k">>, <<"w","h">>, <<"w","r">> >>

CODA_CLUSTERS ==
    << <<"c","k">>, <<"c","t">>, <<"f","t">>, <<"l","d">>, <<"l","k">>,
       <<"l","m">>, <<"l","n">>, <<"l","p">>, <<"l","t">>, <<"m","p">>,
       <<"n","d">>, <<"n","g">>, <<"n","k">>, <<"n","t">>, <<"p","t">>,
       <<"r","d">>, <<"r","k">>, <<"r","m">>, <<"r","n">>, <<"r","p">>,
       <<"r","t">>, <<"s","k">>, <<"s","p">>, <<"s","t">>, <<"t","h">> >>

BANNED_SUBSTRINGS ==
    { <<"q","j">>, <<"j","q">>, <<"w","v">>, <<"v","w">>, <<"z","x">>,
      <<"x","z">>, <<"q","h">>, <<"h","h">>, <<"v","v">>, <<"w","w">>,
      <<"y","y">> }

(***************************************************************************)
(* USERNAME_RE = ^[a-zA-Z][a-zA-Z0-9_]{4,31}$ and USERNAME_RE.match.       *)
(* In Python, $ also matches before a newline that ends the string.        *)
(***************************************************************************)
UsernameMinRest ==
    4

UsernameMaxRest ==
    31

IsWordChar(c) ==
    IsAlpha(c) \/ IsDigit(c) \/ c = "_"

UsernameBody(s) ==
    /\ Len(s) >= 1 + UsernameMinRest
    /\ Len(s) <= 1 + UsernameMaxRest
    /\ IsAlpha(s[1])
    /\ \A i \in 2..Len(s) : IsWordChar(s[i])

USERNAME_RE(s) ==
    \/ UsernameBody(s)
    \/ /\ s # << >>
       /\ s[Len(s)] = "\n"
       /\ UsernameBody(SubSeq(s, 1, Len(s) - 1))

(***************************************************************************)
(* normalize, sanitize_required_substring                                  *)
(***************************************************************************)
normalize(u) ==
    LET stripped == Strip(u)
        bare == IF stripped # << >> /\ Head(stripped) = "@"
                THEN Tail(stripped)
                ELSE stripped
    IN  Lower(bare)

IsNameChar(c) ==
    IsLower(c) \/ IsDigit(c) \/ c = "_"

sanitize_required_substring(s) ==
    SelectSeq(normalize(s), IsNameChar)

(***************************************************************************)
(* looks_ok                                                                *)
(***************************************************************************)
VowelSet ==
    Range(VOWELS)

is_vowel(c) ==
    c \in VowelSet

\* the loop of looks_ok over letters_only: FALSE when a run of three letters
\* of one class is met
RECURSIVE RunsOk(_, _, _)
RunsOk(letters, i, run) ==
    IF i > Len(letters) THEN TRUE
    ELSE IF is_vowel(letters[i]) = is_vowel(letters[i - 1])
         THEN IF run + 1 >= 3 THEN FALSE ELSE RunsOk(letters, i + 1, run + 1)
         ELSE RunsOk(letters, i + 1, 1)

looks_ok(s0) ==
    LET s == Lower(s0)
        letters_only == SelectSeq(s, IsLower)
    IN  IF \E b \in BANNED_SUBSTRINGS : Contains(s, b) THEN FALSE
        ELSE IF letters_only = << >> THEN FALSE
        ELSE IF ~RunsOk(letters_only, 2, 1) THEN FALSE
        ELSE IF s[1] \in {"x", "q"} \/ s[Len(s)] \in {"x", "q"} THEN FALSE
        ELSE TRUE

(***************************************************************************)
(* make_syllable, make_name: the sets of strings they can return.          *)
(***************************************************************************)
\* random.choice(table), within the bound
Choice(table) ==
    { table[i] : i \in 1..Min(MaxChoice, Len(table)) }

\* a one-character string drawn from a table of characters
ChoiceChar(table) ==
    { << c >> : c \in Choice(table) }

make_syllable ==
    LET onsets == Choice(ONSET_CLUSTERS) \cup ChoiceChar(CONSONANTS)
        vowels == ChoiceChar(VOWELS)
        codas == { << >> } \cup Choice(CODA_CLUSTERS) \cup ChoiceChar(CONSONANTS)
    IN  { o \o v \o c : o \in onsets, v \in vowels, c \in codas }

RECURSIVE Syllables(_, _)
Syllables(s, target_len) ==
    IF Len(s) >= target_len THEN { Lower(SubSeq(s, 1, target_len)) }
    ELSE UNION { Syllables(s \o y, target_len) : y \in make_syllable }

make_name(target_len) ==
    IF target_len <= 0 THEN { << >> } ELSE Syllables(<< >>, target_len)


(***************************************************************************)
(* insert_substring, insert_digits: the sets of strings they can return.   *)
(***************************************************************************)
\* a slip in the second slice: the base is kept whole after the substring
SpliceKeepingBase(base, required, pos) ==
    SubSeq(base, 1, pos) \o required \o SubSeq(base, pos + 1, Len(base))

\* base[:pos] + required + base[pos + len(required):]
Splice(base, required, pos) ==
    SubSeq(base, 1, pos) \o required
        \o SubSeq(base, pos + Len(required) + 1, Len(base))

insert_substring(base, required) ==
    IF required = << >> THEN { base }
    ELSE IF Len(required) > Len(base) THEN { required }
    ELSE { Splice(base, required, pos) :
               pos \in 0..(Len(base) - Len(required)) }

\* str(random.randint(0, 9)), within the bound
RandomDigit ==
    { DigitChars[v + 1] : v \in 0..Min(9, MaxDigitValue) }

\* one pass of the loop of insert_digits: s[:pos] + d + s[pos:], pos in 1..len(s)
InsertOneDigit(s) ==
    { SubSeq(s, 1, pos) \o << d >> \o SubSeq(s, pos + 1, Len(s)) :
          d \in RandomDigit, pos \in 1..Len(s) }

RECURSIVE InsertDigitsLoop(_, _)
InsertDigitsLoop(strings, remaining) ==
    IF remaining = 0 THEN strings
    ELSE InsertDigitsLoop(UNION { InsertOneDigit(s) : s \in strings },
                          remaining - 1)

insert_digits(s, digits_count) ==
    IF digits_count <= 0 THEN { s }
    ELSE IF s = << >> THEN { s }
    ELSE InsertDigitsLoop({ s }, digits_count)

(***************************************************************************)
(* build_candidate: the set of values (strings, or None) one call can      *)
(* return.                                                                 *)
(***************************************************************************)
\* re.fullmatch(r"[a-z0-9_]+", required)
FullmatchNameChars(required) ==
    required # << >> /\ \A i \in 1..Len(required) : IsNameChar(required[i])

\* lines 245-254: from the base with the required substring in it
FinishCandidate(base, dcount) ==
    IF base = << >> \/ ~IsAlpha(base[1]) THEN { None }
    ELSE { IF ~USERNAME_RE(normalize(c)) THEN None
           ELSE IF ~looks_ok(normalize(c)) THEN None
           ELSE normalize(c) : c \in insert_digits(base, dcount) }

\* a slip: the test of lines 232-233 left out
NeverTooLong(required, base_len) ==
    FALSE

\* line 232: required and len(required) > base_len
TooLong(required, base_len) ==
    required # << >> /\ Len(required) > base_len

\* lines 220-254: after the draws of L and of the digit count
BuildWith(L, drawn, required0) ==
    LET dcount == Min(drawn, Max(0, L - 1))
        required == sanitize_required_substring(required0)
        base_len == L - dcount
    IN  IF required # << >> /\ ~FullmatchNameChars(required) THEN { None }
        ELSE IF base_len < 1 THEN { None }
        ELSE IF TooLong(required, base_len) THEN { None }
        ELSE UNION { UNION { FinishCandidate(base, dcount) :
                                 base \in insert_substring(name, required) } :
                         name \in make_name(base_len) }

build_candidate(length_min, length_max, digits_min, digits_max, required) ==
    UNION { BuildWith(L, drawn, required) :
                L \in length_min..length_max,
                drawn \in digits_min..digits_max }


(***************************************************************************)
(* The state.                                                              *)
(***************************************************************************)
VARIABLES
    args,            \* the run configuration: what main() passes on
    built,           \* what the last call of build_candidate returned
    pc,              \* where run_checks stands
    checked_file,    \* the text of the checked-log (checked_path)
    available_file,  \* the text of the available-log (available_path)
    already_checked, \* the set already_checked
    done,            \* the counter done
    candidates,      \* the shuffled list of the current batch
    idx,               \* 1 + the number of candidates the for loop has taken
    cand,            \* the candidate under check
    batches,         \* under a seed: the batch drawn for each n so far
    in_flight,       \* the requests the oracle has not answered yet
    calls,           \* history: the names sent to the oracle, in order
    outcomes,        \* history: the oracle's answers, in order
    slept,           \* history: time slept since the oracle's last answer
    start_file,      \* history: the checked-log as the run found it
    start_available, \* history: the available-log as the run found it
    start_names,     \* history: the names with a record in start_file
    sleeps,          \* history: the pacing sleeps of the run so far
    restarts,        \* how often the process was killed and started again
    completed,       \* history: the names logged by the runs killed so far
    results,         \* the set results of generate_candidates_custom
    tries            \* the counter tries of generate_candidates_custom

genVars ==
    << args, built >>

\* what no step of a run of run_checks changes
sideVars ==
    << restarts, completed, results, tries >>

runVars ==
    << pc, checked_file, available_file, already_checked, done, candidates,
       idx, cand, batches, in_flight, calls, outcomes, slept, start_file,
       start_available, start_names, sleeps, sideVars >>

vars ==
    << args, built, pc, checked_file, available_file, already_checked, done,
       candidates, idx, cand, batches, in_flight, calls, outcomes, slept,
       start_file, start_available, start_names, sleeps, restarts, completed,
       results, tries >>

\* built before build_candidate was called
NotCalled ==
    << "NotCalled" >>

\* seed=None, and a seed
NoSeed ==
    << >>

(***************************************************************************)
(* main(), lines 522-532: the configurations that reach the core.          *)
(***************************************************************************)
MinLength ==
    5

MaxDigitsAllowed ==
    31

FinalValidations(a) ==
    /\ ~(a.delay_max < a.delay_min)
    /\ ~(a.min_len < MinLength)
    /\ ~(a.max_len < a.min_len)
    /\ ~(a.digits_min < 0 \/ a.digits_max < a.digits_min)
    /\ ~(a.digits_max > MaxDigitsAllowed)
    /\ ~(a.digits_min > a.max_len - 1)

\* --required as typed: with letters of both cases, a digit, an underscore,
\* a leading "@", blanks, and one too long for any base
RequiredInputs ==
    { << >>,
      << "@", "A", " ", "b", " " >>,
      << "b", "1" >>,
      << "_", "b" >>,
      << "b", "a", "b", "a", "b" >>,
      << "b", "a", "b", "a", "b", "a", "b", "a" >> }

GenArgs ==
    { a \in [ min_len : MinLength..MaxLen, max_len : MinLength..MaxLen,
              digits_min : 0..MaxDig, digits_max : 0..MaxDig,
              required : RequiredInputs, checks : {1},
              delay_min : {0}, delay_max : {0}, seed : {NoSeed} ] :
          FinalValidations(a) }

(***************************************************************************)
(* The text of the two logs.                                               *)
(***************************************************************************)
\* str(n) of an int n >= 0
RECURSIVE str_int(_)
str_int(n) ==
    IF n < 10 THEN << DigitChars[n + 1] >>
    ELSE str_int(n \div 10) \o << DigitChars[(n % 10) + 1] >>

StatusAvailable ==
    << "A", "V", "A", "I", "L", "A", "B", "L", "E" >>

StatusTaken ==
    << "T", "A", "K", "E", "N" >>

\* f"FLOOD_WAIT {wait_s}s"
StatusFloodWait(wait_s) ==
    << "F", "L", "O", "O", "D", "_", "W", "A", "I", "T", " " >> \o str_int(wait_s) \o << "s" >>

\* f"RPC_ERROR {type(e).__name__}"
StatusRPCError(type_name) ==
    << "R", "P", "C", "_", "E", "R", "R", "O", "R", " " >> \o type_name

\* a slip in the format: the kind of the error left out
StatusErrorUnnamed(type_name) ==
    << "E", "R", "R", "O", "R" >>

\* f"ERROR {type(e).__name__}"
StatusError(type_name) ==
    << "E", "R", "R", "O", "R", " " >> \o type_name

\* a slip in the format: the record without its line end
CheckedRecordUnterminated(name, status) ==
    << "@" >> \o name \o << " ", "-", ">", " " >> \o status

\* f"@{cand} -> {status}\n"
CheckedRecord(name, status) ==
    << "@" >> \o name \o << " ", "-", ">", " " >> \o status \o << "\n" >>

\* f"{cand}\n"
AvailableRecord(name) ==
    name \o << "\n" >>

\* the index of the first c in s, 0 when there is none
FirstIndex(s, c) ==
    IF \E k \in 1..Len(s) : s[k] = c
    THEN CHOOSE k \in 1..Len(s) : s[k] = c /\ \A j \in 1..(k - 1) : s[j] # c
    ELSE 0

\* str.splitlines() of a text whose only line ends are "\n"
RECURSIVE splitlines(_)
splitlines(text) ==
    IF text = << >> THEN << >>
    ELSE LET k == FirstIndex(text, "\n")
         IN  IF k = 0 THEN << text >>
             ELSE << SubSeq(text, 1, k - 1) >>
                      \o splitlines(SubSeq(text, k + 1, Len(text)))

\* line.split(" ", 1)[0]
FirstField(line) ==
    LET k == FirstIndex(line, " ")
    IN  IF k = 0 THEN line ELSE SubSeq(line, 1, k - 1)

\* a slip in the slice: the "@" is kept in the name
LoggedNameWithAt(line) ==
    Strip(FirstField(line))

\* line.split(" ", 1)[0][1:].strip()
LoggedName(line) ==
    Strip(Tail(FirstField(line)))

\* lines 303-309: the set already_checked read from the checked-log
LoadAlreadyChecked(text) ==
    UNION { { LoggedName(lines[k]) :
                  k \in { j \in 1..Len(lines) :
                              /\ lines[j] # << >>
                              /\ Head(lines[j]) = "@"
                              /\ LoggedName(lines[j]) # << >> } } :
                lines \in { splitlines(text) } }

(***************************************************************************)
(* generate_candidates_custom                                              *)
(***************************************************************************)
TriesPerCandidate ==
    200

\* One pass of the while loop for every course the loop can have taken:
\* a course that holds fewer than n results calls build_candidate and adds
\* what it returns unless that is None (or empty); a course that holds n
\* has left the loop.
SamplerPass(courses, n, returned) ==
    UNION { IF Cardinality(found) < n
            THEN { IF c = None \/ c = << >> THEN found
                   ELSE found \cup { c } : c \in returned }
            ELSE { found } : found \in courses }

\* The loop, pass by pass, until tries reaches max_tries.  When a pass
\* changes nothing no later pass does, and the remaining passes are not
\* computed.
RECURSIVE SamplerLoop(_, _, _, _, _)
SamplerLoop(courses, tried, n, max_tries, returned) ==
    IF tried >= max_tries THEN courses
    ELSE LET next == SamplerPass(courses, n, returned)
         IN  IF next = courses THEN courses
             ELSE SamplerLoop(next, tried + 1, n, max_tries, returned)

\* the sets of results one call can return
generate_candidates_custom(n, length_min, length_max, digits_min, digits_max, required) ==
    SamplerLoop({ {} }, 0, n, n * TriesPerCandidate,
                build_candidate(length_min, length_max, digits_min,
                                digits_max, required))

\* list(results) followed by random.shuffle: every order of the set
RECURSIVE Shuffles(_)
Shuffles(found) ==
    IF found = {} THEN { << >> }
    ELSE UNION { { << c >> \o rest : rest \in Shuffles(found \ { c }) } :
                     c \in found }

(***************************************************************************)
(* The runs of run_checks: their configurations and the logs they find.    *)
(***************************************************************************)
\* What the runs generate under: a required substring that leaves a single
\* candidate ("babab"); one with a digit to insert, which leaves one
\* candidate for each digit drawn ("babq0", ...) and rejected builds; one
\* that no build survives (a leading underscore).
RunConstraints ==
    { [ digits |-> 0, required |-> << "b", "a", "b", "a", "b" >> ],
      [ digits |-> 1, required |-> << "b", "a", "b", "q" >> ],
      [ digits |-> 0, required |-> << "_", "a", "b", "a", "b" >> ],
      [ digits |-> 0, required |-> << "b", "a", "b", "a", "b", "a" >> ] }

ASeed ==
    << 1 >>

RunArgs ==
    { a \in [ min_len : { MinLength }, max_len : { MinLength },
              digits_min : 0..1, digits_max : 0..1,
              required : { c.required : c \in RunConstraints },
              checks : 1..MaxChecks,
              delay_min : { 0 }, delay_max : { 1 },
              seed : { NoSeed, ASeed } ] :
          /\ FinalValidations(a)
          /\ \E c \in RunConstraints :
                 /\ a.required = c.required
                 /\ a.digits_min = c.digits
                 /\ a.digits_max = c.digits }

\* e.seconds of the FloodWaitErrors the oracle raises
FloodSeconds ==
    { 0, 12 }

\* type(e).__name__ of the errors the oracle raises
RPCErrorTypes ==
    { << "R", "P", "C", "E", "r", "r", "o", "r" >> }

ErrorTypes ==
    { << "C", "o", "n", "n", "e", "c", "t", "i", "o", "n", "E", "r", "r", "o", "r" >> }

\* What earlier runs can have left in the checked-log, and a line that is
\* no record (a bare name).
StartEntries ==
    << [ record |-> TRUE, name |-> << "b", "a", "b", "a", "b" >>, status |-> StatusTaken ],
       [ record |-> TRUE, name |-> << "b", "a", "b", "a", "b" >>, status |-> StatusFloodWait(1) ],
       [ record |-> TRUE, name |-> << "b", "a", "b", "q", "0" >>, status |-> StatusAvailable ],
       [ record |-> TRUE, name |-> << "b", "a", "b", "q", "1" >>,
         status |-> StatusRPCError(<< "R", "P", "C", "E", "r", "r", "o", "r" >>) ],
       [ record |-> TRUE, name |-> << "b", "a", "b", "q", "0" >>,
         status |-> StatusError(<< "C", "o", "n", "n", "e", "c", "t", "i", "o", "n", "E", "r", "r", "o", "r" >>) ],
       [ record |-> FALSE, name |-> << "b", "a", "b", "a", "b" >>, status |-> << >> ] >>

\* The logs a run finds, each a list of entries: no log; one name under two
\* outcomes; a name found available and, by a later run, in error; a record
\* and a bare name; the same record twice; a bare name alone.
StartLogs ==
    { << >>, << 1, 2 >>, << 3, 5 >>, << 4, 6 >>, << 1, 1 >>, << 6 >> }

EntryText(e) ==
    IF e.record THEN CheckedRecord(e.name, e.status)
    ELSE AvailableRecord(e.name)

RECURSIVE StartChecked(_)
StartChecked(q) ==
    IF q = << >> THEN << >>
    ELSE EntryText(StartEntries[Head(q)]) \o StartChecked(Tail(q))

RECURSIVE StartAvailable(_)
StartAvailable(q) ==
    IF q = << >> THEN << >>
    ELSE ( IF StartEntries[Head(q)].record
              /\ StartEntries[Head(q)].status = StatusAvailable
           THEN AvailableRecord(StartEntries[Head(q)].name)
           ELSE << >> ) \o StartAvailable(Tail(q))

StartNames(q) ==
    { StartEntries[q[k]].name :
          k \in { j \in DOMAIN q : StartEntries[q[j]].record } }

(***************************************************************************)
(* run_checks                                                              *)
(***************************************************************************)
BatchCap ==
    200

Oversample ==
    5

ErrorBackoff ==
    2

\* a slip: the oracle's seconds without the margin
FloodBackoffNoMargin(wait_s) ==
    wait_s

\* the argument of asyncio.sleep after a FloodWaitError: wait_s + 1
FloodBackoff(wait_s) ==
    wait_s + 1

\* a slip: the name sent as it is logged, with its "@"
CheckUsernameRequestWithAt(u) ==
    << "@" >> \o u

\* CheckUsernameRequest(u): the name the request carries
CheckUsernameRequest(u) ==
    u

Failures ==
    Cardinality({ k \in 1..Len(outcomes) :
                      outcomes[k].kind \notin { "Available", "Taken" } })

Outcome(kind, seconds, type_name) ==
    [ kind |-> kind, seconds |-> seconds, type |-> type_name ]

Init ==
    /\ args \in RunArgs
    /\ built = NotCalled
    /\ \E q \in StartLogs :
           /\ args.seed # NoSeed => q = << >>
           /\ checked_file = StartChecked(q)
           /\ available_file = StartAvailable(q)
           /\ start_names = StartNames(q)
    /\ start_file = checked_file
    /\ start_available = available_file
    /\ pc = "LOADING_SEEN"
    /\ already_checked = {}
    /\ done = 0
    /\ candidates = << >>
    /\ idx = 1
    /\ cand = << >>
    /\ batches = << >>
    /\ in_flight = {}
    /\ calls = << >>
    /\ outcomes = << >>
    /\ slept = 0
    /\ sleeps = 0
    /\ restarts = 0
    /\ completed = {}
    /\ results = {}
    /\ tries = 0

history ==
    << calls, outcomes, slept, start_file, start_available, start_names,
       sleeps >>

\* a slip in the mode: open(..., "w") empties the file
OpenTruncating(text) ==
    << >>

\* lines 311-312: open("a", ...) leaves what the file holds
OpenAppending(text) ==
    text

\* lines 303-315: LOADING_SEEN
LoadSeen ==
    /\ pc = "LOADING_SEEN"
    /\ already_checked' = LoadAlreadyChecked(checked_file)
    /\ available_file' = OpenAppending(available_file)
    /\ checked_file' = OpenAppending(checked_file)
    /\ done' = 0
    /\ pc' = "SAMPLING"
    /\ UNCHANGED << sideVars, args, built, candidates, idx, cand, batches,
                    in_flight, history >>

\* What generate_candidates_custom can return for every n and every
\* configuration of the runs, computed once: a call leaves nothing behind
\* but the state of the random source, so it returns the same set of
\* results wherever in a run it is made.
Generated ==
    { << n, c, generate_candidates_custom(n, MinLength, MinLength, c.digits,
                                          c.digits, c.required) >> :
          n \in { Min(BatchCap, k) * Oversample : k \in 1..MaxChecks },
          c \in RunConstraints }

\* a slip: the seed is not applied at the call
NeverReseeded(seed) ==
    FALSE

\* lines 266-267: random.seed(seed) at every call, if seed is not None
Reseeded(seed) ==
    seed # NoSeed

\* The batches generate_candidates_custom and random.shuffle can give for n.
\* Under a seed the random source is seeded anew at every call, so a second
\* call with the same n gives the batch of the first.
Batches(n) ==
    IF Reseeded(args.seed) /\ n \in DOMAIN batches THEN { batches[n] }
    ELSE LET g == CHOOSE g \in Generated :
                      /\ g[1] = n
                      /\ g[2].required = args.required
                      /\ g[2].digits = args.digits_min
         IN  UNION { Shuffles(found) : found \in g[3] }

\* lines 316-331: SAMPLING
Sample ==
    /\ pc = "SAMPLING"
    /\ done < args.checks
    /\ LET batch_need == Min(BatchCap, args.checks - done)
           n == batch_need * Oversample
       IN  \E batch \in Batches(n) :
               /\ candidates' = batch
               /\ batches' = IF args.seed = NoSeed THEN batches
                             ELSE (n :> batch) @@ batches
    /\ idx' = 1
    /\ pc' = "CHECKING"
    /\ UNCHANGED << sideVars, args, built, checked_file, available_file,
                    already_checked, done, cand, in_flight, history >>

\* line 316 false, lines 388-390: DONE
Finish ==
    /\ pc = "SAMPLING"
    /\ ~(done < args.checks)
    /\ pc' = "DONE"
    /\ UNCHANGED << sideVars, args, built, checked_file, available_file,
                    already_checked, done, candidates, idx, cand, batches,
                    in_flight, history >>

\* the for loop has a candidate to take: line 333, and line 334 false
HasNext ==
    idx <= Len(candidates) /\ ~(done >= args.checks)

\* a slip: the test of line 338 left out
SkippedOnlyIfInvalid(c) ==
    ~USERNAME_RE(c)

\* lines 337-341: the candidate is skipped
Skipped(c) ==
    c \in already_checked \/ ~USERNAME_RE(c)

Skip ==
    /\ pc = "CHECKING"
    /\ HasNext
    /\ Skipped(normalize(candidates[idx]))
    /\ idx' = idx + 1
    /\ UNCHANGED << sideVars, args, built, pc, checked_file, available_file,
                    already_checked, done, candidates, cand, batches,
                    in_flight, history >>

\* a slip in the bounds of the draw
uniform_doubled(a, b) ==
    a..(b + b)

\* random.uniform(a, b), in whole time units
uniform(a, b) ==
    a..b

\* lines 343-346 and 282-286: the pacing sleep, then the request goes out.
\* (check_username answers False itself, and no request goes out, for a
\* name USERNAME_RE does not match.)
Check ==
    /\ pc = "CHECKING"
    /\ HasNext
    /\ ~Skipped(normalize(candidates[idx]))
    /\ cand' = normalize(candidates[idx])
    /\ \E delay \in uniform(args.delay_min, args.delay_max) :
           slept' = slept + delay
    /\ sleeps' = sleeps + 1
    /\ LET u == normalize(cand')
       IN  IF ~USERNAME_RE(u)
           THEN /\ checked_file' =
                       checked_file \o CheckedRecord(cand', StatusTaken)
                /\ already_checked' = already_checked \cup { cand' }
                /\ done' = done + 1
                /\ idx' = idx + 1
                /\ UNCHANGED << pc, in_flight, calls >>
           ELSE /\ in_flight' = in_flight \cup { CheckUsernameRequest(u) }
                /\ calls' = Append(calls, CheckUsernameRequest(u))
                /\ pc' = "AWAITING"
                /\ UNCHANGED << checked_file, already_checked, done, idx >>
    /\ UNCHANGED << sideVars, args, built, available_file, candidates, batches,
                    outcomes, start_file, start_available, start_names >>

\* what every answer of the oracle does to the histories
Answered(outcome) ==
    /\ in_flight' = in_flight \ { Head(SubSeq(calls, Len(calls), Len(calls))) }
    /\ outcomes' = Append(outcomes, outcome)
    /\ UNCHANGED << calls, start_file, start_available, start_names, sleeps >>

\* lines 347-349: the oracle answers True
ReplyAvailable ==
    /\ pc = "AWAITING"
    /\ checked_file' = checked_file \o CheckedRecord(cand, StatusAvailable)
    /\ pc' = "SAVING"
    /\ slept' = 0
    /\ Answered(Outcome("Available", 0, << >>))
    /\ UNCHANGED << sideVars, args, built, available_file, already_checked, done,
                    candidates, idx, cand, batches >>

\* lines 350-352, 358-359
SaveAvailable ==
    /\ pc = "SAVING"
    /\ available_file' = available_file \o AvailableRecord(cand)
    /\ already_checked' = already_checked \cup { cand }
    /\ done' = done + 1
    /\ idx' = idx + 1
    /\ pc' = "CHECKING"
    /\ UNCHANGED << sideVars, args, built, checked_file, candidates, cand, batches,
                    in_flight, history >>

\* lines 353-359: the oracle answers False
ReplyTaken ==
    /\ pc = "AWAITING"
    /\ checked_file' = checked_file \o CheckedRecord(cand, StatusTaken)
    /\ already_checked' = already_checked \cup { cand }
    /\ done' = done + 1
    /\ idx' = idx + 1
    /\ pc' = "CHECKING"
    /\ slept' = 0
    /\ Answered(Outcome("Taken", 0, << >>))
    /\ UNCHANGED << sideVars, args, built, available_file, candidates, cand, batches >>

\* lines 361-367: FloodWaitError
ReplyFloodWait ==
    /\ pc = "AWAITING"
    /\ Failures < MaxErrors
    /\ \E seconds \in FloodSeconds :
           LET wait_s == seconds
           IN  /\ checked_file' =
                      checked_file \o CheckedRecord(cand, StatusFloodWait(wait_s))
               /\ slept' = FloodBackoff(wait_s)
               /\ Answered(Outcome("RateLimited", seconds, << >>))
    /\ idx' = idx + 1
    /\ pc' = "CHECKING"
    /\ UNCHANGED << sideVars, args, built, available_file, already_checked, done,
                    candidates, cand, batches >>

\* lines 369-374: RPCError
ReplyRPCError ==
    /\ pc = "AWAITING"
    /\ Failures < MaxErrors
    /\ \E type_name \in RPCErrorTypes :
           /\ checked_file' =
                  checked_file \o CheckedRecord(cand, StatusRPCError(type_name))
           /\ Answered(Outcome("TransientError", 0, type_name))
    /\ slept' = ErrorBackoff
    /\ idx' = idx + 1
    /\ pc' = "CHECKING"
    /\ UNCHANGED << sideVars, args, built, available_file, already_checked, done,
                    candidates, cand, batches >>

\* lines 376-381: any other Exception
ReplyError ==
    /\ pc = "AWAITING"
    /\ Failures < MaxErrors
    /\ \E type_name \in ErrorTypes :
           /\ checked_file' =
                  checked_file \o CheckedRecord(cand, StatusError(type_name))
           /\ Answered(Outcome("FatalError", 0, type_name))
    /\ slept' = ErrorBackoff
    /\ idx' = idx + 1
    /\ pc' = "CHECKING"
    /\ UNCHANGED << sideVars, args, built, available_file, already_checked, done,
                    candidates, cand, batches >>

\* lines 383-386: the batch was empty and the quota is not met: STALLED
Stall ==
    /\ pc = "CHECKING"
    /\ ~HasNext
    /\ done < args.checks /\ candidates = << >>
    /\ pc' = "STALLED"
    /\ UNCHANGED << sideVars, args, built, checked_file, available_file,
                    already_checked, done, candidates, idx, cand, batches,
                    in_flight, history >>

\* the for loop is left and line 384 is false: back to line 316
EndBatch ==
    /\ pc = "CHECKING"
    /\ ~HasNext
    /\ ~(done < args.checks /\ candidates = << >>)
    /\ pc' = "SAMPLING"
    /\ UNCHANGED << sideVars, args, built, checked_file, available_file,
                    already_checked, done, candidates, idx, cand, batches,
                    in_flight, history >>

Next ==
    \/ LoadSeen
    \/ Sample
    \/ Finish
    \/ Skip
    \/ Check
    \/ ReplyAvailable
    \/ SaveAvailable
    \/ ReplyTaken
    \/ ReplyFloodWait
    \/ ReplyRPCError
    \/ ReplyError
    \/ Stall
    \/ EndBatch

Spec ==
    Init /\ [][Next]_vars

\* a sampling round whose batch holds a name the for loop will not skip
SampleFresh ==
    /\ Sample
    /\ \E k \in 1..Len(candidates') : ~Skipped(normalize(candidates'[k]))

\* The names of the calls the run has logged: every answer is logged as
\* it is handled.
LoggedCalls ==
    { calls[k] : k \in 1..Len(outcomes) }

\* The process is killed between two steps of run_checks and started again
\* with the same arguments and the same two files: what is in the files
\* stays (every write is flushed in the step that makes it), what is in
\* memory is lost, the request in flight is forgotten.
Interrupt ==
    /\ pc \in { "SAMPLING", "CHECKING", "AWAITING", "SAVING" }
    /\ restarts < MaxRestarts
    /\ restarts' = restarts + 1
    /\ completed' = completed \cup LoggedCalls
    /\ pc' = "LOADING_SEEN"
    /\ already_checked' = {}
    /\ done' = 0
    /\ candidates' = << >>
    /\ idx' = 1
    /\ cand' = << >>
    /\ batches' = << >>
    /\ in_flight' = {}
    /\ calls' = << >>
    /\ outcomes' = << >>
    /\ slept' = 0
    /\ sleeps' = 0
    /\ start_file' = checked_file
    /\ start_available' = available_file
    /\ start_names' = start_names \cup LoggedCalls
    /\ UNCHANGED << args, built, checked_file, available_file, results, tries >>

\* the first run finds no logs; a later run finds what the runs before it
\* have written
CrashInit ==
    Init /\ start_file = << >>

NextCrash ==
    \/ Next
    \/ Interrupt

SpecCrash ==
    CrashInit /\ [][NextCrash]_vars

\* the runs without digits, whose candidate space no bound on the digits
\* cuts
FairInit ==
    Init /\ args.digits_max = 0

\* The run under its scheduling: the event loop runs every step that is
\* ready (each call is answered, each sleep ends), and the sampler, asked
\* again and again while a name remains that is not seen, gives such a
\* name in the end.
FairSpec ==
    FairInit /\ [][Next]_vars /\ WF_vars(Next) /\ SF_vars(SampleFresh)

(***************************************************************************)
(* generate_candidates_custom step by step: one call, as the first         *)
(* sampling round of a run makes it.                                       *)
(***************************************************************************)
\* what build_candidate can return under each configuration of the runs
Buildable ==
    { << c, build_candidate(MinLength, MinLength, c.digits, c.digits,
                            c.required) >> : c \in RunConstraints }

\* what build_candidate can return under the arguments of the run
BuildableNow ==
    ( CHOOSE b \in Buildable :
          /\ b[1].required = args.required
          /\ b[1].digits = args.digits_min )[2]

\* line 321: n of the first round
SamplerN ==
    Min(BatchCap, args.checks) * Oversample

\* a slip in the loop condition: the budget of tries left out
SamplerContinuesUnbudgeted(found, tried, n, max_tries) ==
    Cardinality(found) < n

\* line 273: while len(results) < n and tries < max_tries
SamplerContinues(found, tried, n, max_tries) ==
    Cardinality(found) < n /\ tried < max_tries

InitSampler ==
    /\ args \in RunArgs
    /\ pc = "SAMPLER_LOOP"
    /\ results = {}
    /\ tries = 0
    /\ built = NotCalled
    /\ checked_file = << >>
    /\ available_file = << >>
    /\ already_checked = {}
    /\ done = 0
    /\ candidates = << >>
    /\ idx = 1
    /\ cand = << >>
    /\ batches = << >>
    /\ in_flight = {}
    /\ calls = << >>
    /\ outcomes = << >>
    /\ slept = 0
    /\ start_file = << >>
    /\ start_available = << >>
    /\ start_names = {}
    /\ sleeps = 0
    /\ restarts = 0
    /\ completed = {}

samplerFrame ==
    << args, checked_file, available_file, already_checked, done, idx, cand,
       batches, in_flight, calls, outcomes, slept, start_file,
       start_available, start_names, sleeps, restarts, completed >>

\* lines 273-277: one pass of the while loop
SamplerTry ==
    /\ pc = "SAMPLER_LOOP"
    /\ SamplerContinues(results, tries, SamplerN, SamplerN * TriesPerCandidate)
    /\ tries' = tries + 1
    /\ \E c \in BuildableNow :
           /\ built' = c
           /\ results' = IF c = None \/ c = << >> THEN results
                         ELSE results \cup { c }
    /\ UNCHANGED << pc, candidates, samplerFrame >>

\* line 273 false, line 279: return list(results)
SamplerReturn ==
    /\ pc = "SAMPLER_LOOP"
    /\ ~SamplerContinues(results, tries, SamplerN, SamplerN * TriesPerCandidate)
    /\ candidates' \in Shuffles(results)
    /\ pc' = "SAMPLER_RETURNED"
    /\ UNCHANGED << built, results, tries, samplerFrame >>

NextSampler ==
    \/ SamplerTry
    \/ SamplerReturn

SpecSampler ==
    InitSampler /\ [][NextSampler]_vars

(***************************************************************************)
(* main: the arguments, as flags or as answers, and their validation.      *)
(***************************************************************************)
\* the answers A..F to the length question
LengthChoices ==
    { "A", "B", "C", "D", "E", "F" }

pick_length_from_choice(choice) ==
    CASE choice = "A" -> << 5, 5 >>
      [] choice = "B" -> << 6, 6 >>
      [] choice = "C" -> << 6, 8 >>
      [] choice = "D" -> << 8, 10 >>
      [] choice = "E" -> << 10, 32 >>
      [] choice = "F" -> << 5, 32 >>

\* the answers A..E to the digits question
DigitChoices ==
    { "A", "B", "C", "D", "E" }

pick_digits_from_choice(choice, length_min, length_max) ==
    CASE choice = "A" -> << 0, 0 >>
      [] choice = "B" -> << 1, 1 >>
      [] choice = "C" -> << 2, 2 >>
      [] choice = "D" -> << 3, 3 >>
      [] choice = "E" -> << 4, Min(8, Max(4, length_max - 1)) >>

\* what interactive_config leaves in args
InteractiveArgs ==
    { [ min_len |-> pick_length_from_choice(lc)[1],
        max_len |-> pick_length_from_choice(lc)[2],
        digits_min |-> pick_digits_from_choice(dc,
                           pick_length_from_choice(lc)[1],
                           pick_length_from_choice(lc)[2])[1],
        digits_max |-> pick_digits_from_choice(dc,
                           pick_length_from_choice(lc)[1],
                           pick_length_from_choice(lc)[2])[2],
        required |-> << >>, checks |-> 1, delay_min |-> dmin,
        delay_max |-> dmax, seed |-> NoSeed ] :
          lc \in LengthChoices, dc \in DigitChoices,
          dmin \in 0..1, dmax \in 0..1 }

\* the values given to --digits-min and --digits-max
DigitFlags ==
    (-1..MaxDig)
        \cup { MaxLen - 1, MaxLen, MaxDigitsAllowed, MaxDigitsAllowed + 1 }

\* what the flags --min, --max, --digits-min, --digits-max, --delay-min and
\* --delay-max leave in args
FlagArgs ==
    [ min_len : (MinLength - 1)..MaxLen, max_len : (MinLength - 1)..MaxLen,
      digits_min : DigitFlags, digits_max : DigitFlags,
      required : { << >> }, checks : { 1 },
      delay_min : 0..1, delay_max : 0..1, seed : { NoSeed } ]

InitMain ==
    /\ args \in FlagArgs \cup InteractiveArgs
    /\ pc = "VALIDATING"
    /\ built = NotCalled
    /\ checked_file = << >>
    /\ available_file = << >>
    /\ already_checked = {}
    /\ done = 0
    /\ candidates = << >>
    /\ idx = 1
    /\ cand = << >>
    /\ batches = << >>
    /\ in_flight = {}
    /\ calls = << >>
    /\ outcomes = << >>
    /\ slept = 0
    /\ start_file = << >>
    /\ start_available = << >>
    /\ start_names = {}
    /\ sleeps = 0
    /\ restarts = 0
    /\ completed = {}
    /\ results = {}
    /\ tries = 0

mainVars ==
    << built, checked_file, available_file, already_checked, done,
       candidates, idx, cand, batches, in_flight, calls, outcomes, slept,
       start_file, start_available, start_names, sleeps, sideVars >>

\* lines 508-509, 522-532: a SystemExit is raised
Reject ==
    /\ pc = "VALIDATING"
    /\ ~FinalValidations(args)
    /\ pc' = "REJECTED"
    /\ UNCHANGED << args, mainVars >>

\* line 534: the arguments go to run_checks
Accept ==
    /\ pc = "VALIDATING"
    /\ FinalValidations(args)
    /\ pc' = "LOADING_SEEN"
    /\ UNCHANGED << args, mainVars >>

NextMain ==
    \/ Reject
    \/ Accept

SpecMain ==
    InitMain /\ [][NextMain]_vars

(***************************************************************************)
(* The generator alone: one call of build_candidate under a configuration. *)
(***************************************************************************)
InitGen ==
    /\ args \in GenArgs
    /\ built = NotCalled
    /\ pc = "LOADING_SEEN"
    /\ checked_file = << >>
    /\ available_file = << >>
    /\ already_checked = {}
    /\ done = 0
    /\ candidates = << >>
    /\ idx = 1
    /\ cand = << >>
    /\ batches = << >>
    /\ in_flight = {}
    /\ calls = << >>
    /\ outcomes = << >>
    /\ slept = 0
    /\ sleeps = 0
    /\ restarts = 0
    /\ completed = {}
    /\ results = {}
    /\ tries = 0
    /\ start_file = << >>
    /\ start_available = << >>
    /\ start_names = {}

BuildCandidate ==
    /\ built = NotCalled
    /\ \E c \in build_candidate(args.min_len, args.max_len, args.digits_min,
                                 args.digits_max, args.required) :
           built' = c
    /\ UNCHANGED args
    /\ UNCHANGED runVars

NextGen ==
    BuildCandidate

SpecGen ==
    InitGen /\ [][NextGen]_vars

(***************************************************************************)
(* Properties of the generator.                                            *)
(***************************************************************************)
\* build_candidate returned a string
Returned ==
    built # NotCalled /\ built # None

\* the Naming Grammar: ^[a-z][a-z0-9_]{4,31}$ of a lowercase name
IsValidName(c) ==
    /\ Len(c) >= 5
    /\ Len(c) <= 32
    /\ c[1] \in LowerSet
    /\ \A i \in 1..Len(c) : c[i] \in LowerSet \cup DigitSet \cup {"_"}

DigitCount(c) ==
    Cardinality({ i \in 1..Len(c) : c[i] \in DigitSet })

\* C1: every string build_candidate returns satisfies the Naming Grammar and
\* its length lies within [length_min, length_max].
C1_ValidAndLengthBounded ==
    Returned =>
        /\ IsValidName(built)
        /\ Len(built) >= args.min_len
        /\ Len(built) <= args.max_len

\* a returned candidate built with a required substring and with digits
C1_Witness ==
    /\ Returned
    /\ sanitize_required_substring(args.required) # << >>
    /\ args.digits_min >= 1
    /\ DigitCount(built) >= 1

\* C2: with a non-empty required substring set, every returned candidate
\* contains the sanitized substring contiguously, whatever the digit count.
C2_ContainsRequired ==
    (Returned /\ sanitize_required_substring(args.required) # << >>) =>
        Contains(built, sanitize_required_substring(args.required))

\* C3: the number of digit characters of every returned candidate lies
\* within [digits_min, digits_max].
C3_DigitCountBounded ==
    Returned =>
        /\ DigitCount(built) >= args.digits_min
        /\ DigitCount(built) <= args.digits_max


(***************************************************************************)
(* Properties of the checking loop.                                        *)
(***************************************************************************)
Last(q) ==
    q[Len(q)]

\* the status text the checked-log carries for an outcome
OutcomeText(o) ==
    CASE o.kind = "Available" -> << "A", "V", "A", "I", "L", "A", "B", "L", "E" >>
      [] o.kind = "Taken" -> << "T", "A", "K", "E", "N" >>
      [] o.kind = "RateLimited" ->
             << "F", "L", "O", "O", "D", "_", "W", "A", "I", "T", " " >>
                 \o str_int(o.seconds) \o << "s" >>
      [] o.kind = "TransientError" ->
             << "R", "P", "C", "_", "E", "R", "R", "O", "R", " " >> \o o.type
      [] o.kind = "FatalError" ->
             << "E", "R", "R", "O", "R", " " >> \o o.type

\* '@<name> -> <OUTCOME>' of the k-th call, with its line end
ExpectedRecord(k) ==
    << "@" >> \o calls[k] \o << " ", "-", ">", " " >>
        \o OutcomeText(outcomes[k]) \o << "\n" >>

\* the records of the first k calls, in the order of the calls
RECURSIVE ExpectedLog(_)
ExpectedLog(k) ==
    IF k = 0 THEN << >> ELSE ExpectedLog(k - 1) \o ExpectedRecord(k)

\* the bare names of the calls among the first k that were answered Available
RECURSIVE ExpectedAvailable(_)
ExpectedAvailable(k) ==
    IF k = 0 THEN << >>
    ELSE ExpectedAvailable(k - 1)
             \o ( IF outcomes[k].kind = "Available"
                  THEN calls[k] \o << "\n" >> ELSE << >> )

\* a step in which the handling of an answered call ends
OutcomeHandled ==
    pc \in { "AWAITING", "SAVING" } /\ pc' = "CHECKING"

\* C4: whatever the oracle's outcome, once it is logged and handled the
\* candidate is in the SeenSet and the done-count has grown by exactly one.
C4_OutcomeCountsAsProcessed ==
    [][ OutcomeHandled =>
            /\ cand \in already_checked'
            /\ done' = done + 1 ]_vars

\* C5: within a run no name is sent to the oracle more than once.
C5_NoNameSentTwice ==
    \A j, k \in 1..Len(calls) : calls[j] = calls[k] => j = k

\* C6: after LOADING_SEEN the SeenSet holds every name that has a record in
\* the checked-log at the start, whatever its outcome and however often it
\* is logged, and nothing else but the names called since; no such name is
\* sent to the oracle.
C6_LoggedNamesSeenAndNeverSent ==
    pc # "LOADING_SEEN" =>
        /\ start_names \subseteq already_checked
        /\ already_checked \subseteq start_names \cup Range(calls)
        /\ \A k \in 1..Len(calls) : calls[k] \notin start_names

\* the for loop has passed over a sampled name the log held at the start,
\* read from a log with more than one line
C6_Witness ==
    /\ pc = "CHECKING"
    /\ idx > 1
    /\ candidates[idx - 1] \in start_names
    /\ Len(splitlines(start_file)) > 1

\* C7: every run ends in DONE or STALLED.
C7_ReachesTerminalState ==
    <>(pc \in { "DONE", "STALLED" })

\* C8: on RateLimited(s) the checked-log gains exactly the line
\* '@<name> -> FLOOD_WAIT <s>s', the loop goes on to the next candidate,
\* and at least s + 1 time units are slept before the next call goes out.
C8_FloodWaitLoggedAndHonoured ==
    [][ /\ ( Len(outcomes') = Len(outcomes) + 1
             /\ Last(outcomes').kind = "RateLimited" ) =>
            /\ checked_file' =
                   checked_file \o << "@" >> \o Last(calls)
                       \o << " ", "-", ">", " ", "F", "L", "O", "O", "D", "_",
                             "W", "A", "I", "T", " " >>
                       \o str_int(Last(outcomes').seconds) \o << "s", "\n" >>
            /\ pc' = "CHECKING"
        /\ ( Len(calls') = Len(calls) + 1
             /\ outcomes # << >>
             /\ Last(outcomes).kind = "RateLimited" ) =>
            slept' >= Last(outcomes).seconds + 1 ]_vars

\* a call has gone out after a RateLimited answer of more than ten seconds
C8_Witness ==
    /\ pc = "AWAITING"
    /\ outcomes # << >>
    /\ Last(outcomes).kind = "RateLimited"
    /\ Last(outcomes).seconds > 10

\* C9: every answered call has exactly one record in the checked-log, in
\* the order of the calls and written before the next call goes out; the
\* available-log gains the bare name exactly for the Available answers; at
\* most one call is in flight.
C9_OneRecordPerCall ==
    /\ Len(calls) = Len(outcomes) + ( IF pc = "AWAITING" THEN 1 ELSE 0 )
    /\ checked_file = start_file \o ExpectedLog(Len(outcomes))
    /\ available_file =
           start_available
               \o ExpectedAvailable(Len(outcomes)
                                        - ( IF pc = "SAVING" THEN 1 ELSE 0 ))
    /\ in_flight = ( IF pc = "AWAITING" THEN { Last(calls) } ELSE {} )

\* a run that appended to a log it found, with an Available answer after an
\* answer of another kind
C9_Witness ==
    /\ pc = "DONE"
    /\ start_file # << >>
    /\ Len(outcomes) >= 2
    /\ Last(outcomes).kind = "Available"
    /\ outcomes[1].kind # "Available"

\* C10: every name in every oracle request is lowercase and matches
\* ^[a-z][a-z0-9_]{4,31}$.
C10_OnlyValidNamesSent ==
    /\ \A k \in 1..Len(calls) : IsValidName(calls[k])
    /\ \A u \in in_flight : IsValidName(u)

\* a request is in flight for a name that carries a digit
C10_Witness ==
    /\ pc = "AWAITING"
    /\ in_flight # {}
    /\ DigitCount(Last(calls)) >= 1

(***************************************************************************)
(* Properties of interrupted runs.                                         *)
(***************************************************************************)
IsPrefix(p, q) ==
    Len(p) <= Len(q) /\ SubSeq(q, 1, Len(p)) = p

\* C11: across an interruption and a restart with the same logs both logs
\* only grow by appending, and every name logged before the interruption
\* is in the SeenSet of the restarted run and is not sent to the oracle
\* again.
C11_ResumeKeepsRecordsAndSeenNames ==
    /\ [][ /\ IsPrefix(checked_file, checked_file')
           /\ IsPrefix(available_file, available_file') ]_vars
    /\ [](pc # "LOADING_SEEN" =>
              /\ completed \subseteq already_checked
              /\ \A k \in 1..Len(calls) : calls[k] \notin completed)

\* a restarted run has passed over a name an interrupted run had logged
C11_Witness ==
    /\ restarts >= 1
    /\ pc = "CHECKING"
    /\ idx > 1
    /\ candidates[idx - 1] \in completed

(***************************************************************************)
(* Properties of the checking loop, continued.                             *)
(***************************************************************************)
\* the sanitized required substring is longer than base_len = L - d for
\* every draw of L and d
Unfit(a) ==
    \A L \in a.min_len..a.max_len, d \in a.digits_min..a.digits_max :
        Len(sanitize_required_substring(a.required))
            > L - Min(d, Max(0, L - 1))

\* C12: when the required substring fits no base, build_candidate returns
\* None on every call, every batch is empty, no call is made and no record
\* is appended, and the run ends STALLED.
C12_UnfitSubstringStalls ==
    /\ [](Unfit(args) =>
              /\ build_candidate(args.min_len, args.max_len, args.digits_min,
                                 args.digits_max, args.required) = { None }
              /\ candidates = << >>
              /\ calls = << >>
              /\ checked_file = start_file
              /\ available_file = start_available
              /\ pc # "DONE")
    /\ [](Unfit(args) => <>(pc = "STALLED"))

\* a run with such a substring has stalled, beside a log it found
C12_Witness ==
    /\ Unfit(args)
    /\ pc = "STALLED"
    /\ start_file # << >>

C14_ErrorsLoggedAndRunGoesOn ==
    /\ [][ ( Len(outcomes') = Len(outcomes) + 1
             /\ Last(outcomes').kind \in { "TransientError", "FatalError" } ) =>
               /\ checked_file' =
                      checked_file \o << "@" >> \o Last(calls)
                          \o << " ", "-", ">", " " >>
                          \o ( IF Last(outcomes').kind = "TransientError"
                               THEN << "R", "P", "C", "_", "E", "R", "R", "O", "R", " " >>
                               ELSE << "E", "R", "R", "O", "R", " " >> )
                          \o Last(outcomes').type \o << "\n" >>
               /\ slept' = 2
               /\ pc' = "CHECKING"
               /\ idx' = idx + 1
               /\ candidates' = candidates ]_vars
    /\ [](pc \notin { "DONE", "STALLED" } => ENABLED Next)

\* a run has met its quota after an error of a call
C14_Witness ==
    /\ pc = "DONE"
    /\ \E k \in 1..Len(outcomes) :
           outcomes[k].kind \in { "TransientError", "FatalError" }

(***************************************************************************)
(* Properties of main.                                                     *)
(***************************************************************************)
\* C15: the arguments that pass the validation of main satisfy
\* length_min >= 5, length_min <= length_max, digits_min <= digits_max and
\* digits_max < length_max; the others are rejected before any call.
C15_ValidatedConstraints ==
    /\ pc = "LOADING_SEEN" =>
           /\ args.min_len >= 5
           /\ args.min_len <= args.max_len
           /\ args.digits_min <= args.digits_max
           /\ args.digits_max < args.max_len
    /\ pc = "REJECTED" => calls = << >>

(***************************************************************************)
(* Properties of the checking loop: pacing, skipping, quota.               *)
(***************************************************************************)
\* C16: every oracle call, the first included, comes right after a pacing
\* sleep of its own, of a duration within [delay_min, delay_max].
C16_PacingSleepBeforeEveryCall ==
    /\ [](sleeps = Len(calls))
    /\ [][ Len(calls') = Len(calls) + 1 =>
               /\ sleeps' = sleeps + 1
               /\ slept' - slept >= args.delay_min
               /\ slept' - slept <= args.delay_max ]_vars

\* a second call has gone out, straight after an answer of the oracle
C16_Witness ==
    /\ pc = "AWAITING"
    /\ Len(calls) = 2
    /\ sleeps = 2

C18_SkipChangesNothing ==
    [][ ( /\ pc = "CHECKING"
          /\ idx <= Len(candidates)
          /\ done < args.checks
          /\ \/ normalize(candidates[idx]) \in already_checked
             \/ ~IsValidName(normalize(candidates[idx])) ) =>
            /\ idx' = idx + 1
            /\ pc' = "CHECKING"
            /\ UNCHANGED << sleeps, slept, calls, in_flight, outcomes,
                            checked_file, available_file, already_checked,
                            done >> ]_vars

\* a candidate the log held at the start was passed over: nothing was
\* slept, sent or written
C18_Witness ==
    /\ pc = "CHECKING"
    /\ idx = 2
    /\ candidates[1] \in already_checked
    /\ sleeps = 0
    /\ checked_file = start_file

\* the records the run has appended to the checked-log
AppendedRecords ==
    splitlines(SubSeq(checked_file, Len(start_file) + 1, Len(checked_file)))

\* C19: done never exceeds the quota, no call goes out once done equals the
\* quota, a run that ends DONE has appended exactly `checks` records, and
\* the calls of a run never outnumber the quota.
C19_CallsWithinQuota ==
    /\ done <= args.checks
    /\ pc = "AWAITING" => done < args.checks
    /\ pc = "DONE" => Len(AppendedRecords) = args.checks
    /\ Len(calls) <= args.checks


\* " -> AVAILABLE", the tail of an Available record of the checked-log
AvailableTail ==
    << " ", "-", ">", " " >> \o StatusAvailable

\* the names that have an AVAILABLE record in the checked-log
NamesLoggedAvailable ==
    { SubSeq(l, 2, Len(l) - Len(AvailableTail)) :
        l \in { r \in Range(splitlines(checked_file)) :
                  /\ Len(r) > Len(AvailableTail)
                  /\ r[1] = "@"
                  /\ SubSeq(r, Len(r) - Len(AvailableTail) + 1, Len(r)) = AvailableTail } }

\* C20: across interruptions and restarts, whenever run_checks is between
\* candidates (not waiting for the oracle and not in the middle of saving an
\* answer), every name with an AVAILABLE record in the checked-log has a
\* line of its own in the available-log.
C20_AvailableInBothLogs ==
    pc \notin { "AWAITING", "SAVING" } =>
        NamesLoggedAvailable \subseteq Range(splitlines(available_file))
=============================================================================
